---------------------------- MODULE Spec2Model ----------------------------
(***************************************************************************)
(* Privacy-preserving blocking for two-party record linkage.               *)
(*                                                                         *)
(*   - PPRLIndex2PartyKAnonymousSortedNeighbour (pprl2partyknnsorted.py):  *)
(*     sorted-neighbourhood k-anonymous blocking;                          *)
(*   - PPRLIndexPSignature (pprlpsig.py): Bloom-filter p-sig blocking.     *)
(*                                                                         *)
(* Strings are sequences of character codes, compared as Python compares   *)
(* str values (lexicographically by code point).  A Python dict is a       *)
(* sequence of <<key, value>> pairs in insertion order.  An attribute that *)
(* may be None is a record [st, val] with st in {"absent","none","set"}.   *)
(***************************************************************************)
EXTENDS Integers, Sequences, FiniteSets, TLC

VARIABLES
    \* ---- configuration of the sorted-neighbourhood indexer (__init__)
    k, w, min_sim_threshold, sim_or_size,
    \* ---- per-party state of the sorted-neighbourhood indexer
    ref_val_list, attr_select_list, ref_ind_dict, sort_ref_val_list,
    rep_vals, rep_index,
    \* ---- state both indexers inherit from PPRLIndex
    rec_dict, index, block_dict,
    \* ---- configuration and state of the p-sig indexer
    num_hash_funct, bf_len, QGRAM_PADDING, party_bf, common_bf, ngram_dict,
    \* ---- how often get_ngram has run for each party
    calls,
    \* ---- the n-gram whose id lists each entry of the p-sig block_dict holds
    block_ids,
    \* ---- observation of the calls: the outcome of the last call, how each
    \*      party's last build ended, the locals of the last generate_blocks
    result, built, gb

vars == << k, w, min_sim_threshold, sim_or_size,
           ref_val_list, attr_select_list, ref_ind_dict, sort_ref_val_list,
           rep_vals, rep_index, rec_dict, index, block_dict,
           num_hash_funct, bf_len, QGRAM_PADDING, party_bf, common_bf,
           ngram_dict, calls, block_ids, result, built, gb >>

snConfig == << k, w, min_sim_threshold, sim_or_size >>
snParty  == << ref_val_list, attr_select_list, ref_ind_dict,
               sort_ref_val_list, rep_vals, rep_index >>
psConfig == << num_hash_funct, bf_len, QGRAM_PADDING >>
psState  == << psConfig, party_bf, common_bf, ngram_dict, calls >>
psVars   == << psState, block_ids >>

Party == {"alice", "bob"}

-----------------------------------------------------------------------------
(* Bounds of the model.                                                    *)

MaxK    == 2      \* k ranges over 0..MaxK
MaxW    == 2      \* w ranges over 0..MaxW
MaxRecs == 2      \* records per party table
MaxRefs == 3      \* reference values per party (single-party specification)
MaxExposed == 3   \* values a party can expose (two-party specification)
MaxHash == 2      \* num_hash_funct ranges over 0..MaxHash
MaxCalls == 2     \* runs of get_ngram per party

-----------------------------------------------------------------------------
(* Python values.                                                          *)

Absent  == [st |-> "absent", val |-> <<>>]
None    == [st |-> "none",   val |-> <<>>]
Some(v) == [st |-> "set",    val |-> v]

RECURSIVE StrLess(_, _)
StrLess(a, b) ==
    IF a = <<>> THEN b # <<>>
    ELSE IF b = <<>> THEN FALSE
    ELSE IF Head(a) # Head(b) THEN Head(a) < Head(b)
    ELSE StrLess(Tail(a), Tail(b))

RECURSIVE InsertSorted(_, _)
InsertSorted(x, s) ==
    IF s = <<>> THEN <<x>>
    ELSE IF StrLess(x, Head(s)) THEN <<x>> \o s
    ELSE <<Head(s)>> \o InsertSorted(x, Tail(s))

RECURSIVE sorted(_)
sorted(s) ==
    IF s = <<>> THEN <<>>
    ELSE InsertSorted(s[Len(s)], sorted(SubSeq(s, 1, Len(s) - 1)))

RECURSIVE BisectLoop(_, _, _, _)
BisectLoop(a, x, lo, hi) ==
    IF lo < hi
    THEN LET mid == (lo + hi) \div 2
         IN  IF StrLess(x, a[mid + 1])
             THEN BisectLoop(a, x, lo, mid)
             ELSE BisectLoop(a, x, mid + 1, hi)
    ELSE lo

bisect(a, x) == BisectLoop(a, x, 0, Len(a))

Range(s) == { s[i] : i \in 1..Len(s) }

RECURSIVE Concat(_)
Concat(ss) == IF ss = <<>> THEN <<>> ELSE Head(ss) \o Concat(Tail(ss))

(* dict operations on a sequence of <<key, value>> pairs *)
DictKeys(d)   == { d[i][1] : i \in 1..Len(d) }
DictHas(d, x) == \E i \in 1..Len(d) : d[i][1] = x
DictGet(d, x) == d[CHOOSE i \in 1..Len(d) : d[i][1] = x][2]
DictSet(d, x, v) ==
    IF DictHas(d, x)
    THEN [i \in 1..Len(d) |-> IF d[i][1] = x THEN <<x, v>> ELSE d[i]]
    ELSE Append(d, <<x, v>>)
DictDel(d, x) ==
    LET keep == { i \in 1..Len(d) : d[i][1] # x }
        F[n \in 0..Len(d)] ==
            IF n = 0 THEN <<>>
            ELSE IF n \in keep THEN Append(F[n - 1], d[n]) ELSE F[n - 1]
    IN  F[Len(d)]

-----------------------------------------------------------------------------
(* config.py and the pluggable similarity measure.                         *)

SORTED_FIRST_VAL == <<>>            \* the smallest possible value

QGRAM_LEN == 2
PADDING_START_CHAR == <<8>>
PADDING_END_CHAR == <<9>>

sim_measure(a, b) ==
    IF a = b THEN 100
    ELSE IF a # <<>> /\ b # <<>> /\ Head(a) = Head(b) THEN 50
    ELSE 0

-----------------------------------------------------------------------------
(* Sorted-neighbourhood indexer: reference values and record buckets.      *)

(* __sort_ref_values_alice__ / __sort_ref_values_bob__: position 0 is the  *)
(* sentinel, positions 1..N the sorted reference values.                   *)
SortRefValues(refs) ==
    LET srt == sorted(refs)
    IN  [ ref_ind_dict |-> [ind \in 0..Len(srt) |->
                               IF ind = 0 THEN SORTED_FIRST_VAL ELSE srt[ind]],
          sort_ref_val_list |-> srt ]

(* The sort-key value of a record: its selected attributes concatenated.    *)
(* Column numbers are 0-based as in the source.                            *)
SortKeyValue(rec_list, attr_sel) ==
    Concat([c \in 1..Len(attr_sel) |-> rec_list[attr_sel[c] + 1]])

(* Lines 250-283: every record id is appended to the list of the reference *)
(* value found at the bisect position of its sort-key value.               *)
RECURSIVE InsertRecords(_, _, _, _, _)
InsertRecords(recs, attr_sel, sort_refs, ref_ind, ref_val_dict) ==
    IF recs = <<>> THEN ref_val_dict
    ELSE LET rec_id  == Head(recs)[1]
             sk_val  == SortKeyValue(Head(recs)[2], attr_sel)
             pos     == bisect(sort_refs, sk_val)
             ref_val == ref_ind[pos]
         IN  InsertRecords(Tail(recs), attr_sel, sort_refs, ref_ind,
                 [ref_val_dict EXCEPT ![ref_val] = Append(@, rec_id)])

RefValDict(recs, attr_sel, sort_refs, ref_ind) ==
    InsertRecords(recs, attr_sel, sort_refs, ref_ind,
        [v \in {SORTED_FIRST_VAL} \cup Range(sort_refs) |-> <<>>])

(* The stopping predicate of the inner while loop, lines 301-302.          *)
KeepGrowing(num_elements, sim_val, pos, kk, t, len_sort_ref_list) ==
    \/ (num_elements <= kk /\ pos < len_sort_ref_list)
    \/ (sim_val >= t /\ pos < len_sort_ref_list)

(* The inner while loop, lines 301-314: grow the group that starts at i.   *)
RECURSIVE GrowGroup(_, _, _, _, _, _, _, _, _)
GrowGroup(i, j, num_elements, elems, sim_val, ref_ind, ref_val_dict, kk, t) ==
    LET n == Cardinality(DOMAIN ref_ind) - 1     \* len(sort_ref_val_list)
    IN  IF KeepGrowing(num_elements, sim_val, i + j, kk, t, n)
        THEN LET this_ref_val == ref_ind[i + j]
                 this_list    == ref_val_dict[this_ref_val]
                 next_sim     == IF i + j + 1 # n
                                 THEN sim_measure(this_ref_val, ref_ind[i + j + 1])
                                 ELSE sim_val
             IN  GrowGroup(i, j + 1, num_elements + Len(this_list),
                           elems \o this_list, next_sim,
                           ref_ind, ref_val_dict, kk, t)
        ELSE [j |-> j, elems |-> elems]

(* A block key 'b_3_4_' is the sequence <<3, 4>> of the positions it       *)
(* names; '_' + str(p) + '_' is a substring of the key exactly when p is   *)
(* one of them (every position of a key has '_' on both sides).            *)
KeyContains(key, p) == \E x \in 1..Len(key) : key[x] = p

PositionsFrom(i, j) == [b \in 1..j |-> i + b - 1]

(* Variant of line 319 with the comparison off by one.                     *)
UndersizedOffByOne(elems, kk) == Len(elems) < kk - 1

(* Whether a closed group is undersized and has to be merged, line 319.    *)
Undersized(elems, kk) == Len(elems) < kk

(* Variant of lines 335-336 with range(j + 1) in place of range(j).        *)
PositionsUpToNext(i, j) == [b \in 1..(j + 1) |-> i + b - 1]

(* The positions a group that starts at i and took j positions adds to its *)
(* block key, lines 335-336.                                               *)
GroupPositions(i, j) == PositionsFrom(i, j)

(* Lines 316-342: the group g grown from position i is closed: merged      *)
(* into the previous block when undersized, stored as a new block          *)
(* otherwise.  The lookup of the previous block raises when no key         *)
(* contains position i - 1.                                                *)
CloseGroup(i, blocks, g, kk) ==
    LET prevs == { x \in 1..Len(blocks) : KeyContains(blocks[x][1], i - 1) }
    IN  IF Undersized(g.elems, kk)
        THEN IF prevs = {}
             THEN [raised |-> "StopIteration", block_dict |-> blocks, i |-> i]
             ELSE LET first == CHOOSE x \in prevs : \A y \in prevs : x <= y
                      prev_blk_id == blocks[first][1]
                      merged == g.elems \o blocks[first][2]
                      block_id == prev_blk_id \o GroupPositions(i, g.j)
                  IN  [raised |-> "",
                       block_dict |-> DictSet(DictDel(blocks, prev_blk_id),
                                              block_id, merged),
                       i |-> i + g.j]
        ELSE [raised |-> "",
              block_dict |-> DictSet(blocks, GroupPositions(i, g.j), g.elems),
              i |-> i + g.j]

(* One pass of the outer while loop, lines 293-342, at position i: the     *)
(* block dictionary after the pass and the position of the next pass, or   *)
(* the exception raised.                                                   *)
SweepStep(i, blocks, ref_ind, ref_val_dict, kk, t) ==
    CloseGroup(i, blocks,
               GrowGroup(i, 0, 0, <<>>, 0, ref_ind, ref_val_dict, kk, t), kk)

(* The outer while loop, lines 291-342.  The result is the block           *)
(* dictionary, or the exception raised by a pass.                          *)
RECURSIVE MergeSweep(_, _, _, _, _, _)
MergeSweep(i, blocks, ref_ind, ref_val_dict, kk, t) ==
    LET n == Cardinality(DOMAIN ref_ind) - 1
    IN  IF i < n
        THEN LET st == SweepStep(i, blocks, ref_ind, ref_val_dict, kk, t)
             IN  IF st.raised # ""
                 THEN [raised |-> st.raised, block_dict |-> st.block_dict]
                 ELSE MergeSweep(st.i, st.block_dict, ref_ind, ref_val_dict, kk, t)
        ELSE [raised |-> "", block_dict |-> blocks]

(* The values block_dict takes during the outer while loop: before the     *)
(* first pass and after every pass.                                        *)
RECURSIVE SweepPoints(_, _, _, _, _, _)
SweepPoints(i, blocks, ref_ind, ref_val_dict, kk, t) ==
    LET n == Cardinality(DOMAIN ref_ind) - 1
    IN  IF i < n
        THEN LET st == SweepStep(i, blocks, ref_ind, ref_val_dict, kk, t)
             IN  IF st.raised # ""
                 THEN << blocks >>
                 ELSE << blocks >> \o SweepPoints(st.i, st.block_dict, ref_ind,
                                                  ref_val_dict, kk, t)
        ELSE << blocks >>

(* __generate_sorted_index__: only the 'SIM' criterion has a sweep; with   *)
(* 'SIZE' the block dictionary is returned as initialised, empty.          *)
GenerateSortedIndex(recs, attr_sel, sort_refs, ref_ind, kk, t, mode) ==
    IF mode = "SIM"
    THEN MergeSweep(0, <<>>, ref_ind,
                    RefValDict(recs, attr_sel, sort_refs, ref_ind), kk, t)
    ELSE [raised |-> "", block_dict |-> <<>>]

(* __select_rep_ref_vals__: every position of every key is exposed; the    *)
(* first block that names a value owns it in the representative index.     *)
RECURSIVE RegisterRefs(_, _, _, _)
RegisterRefs(ref_nums, key, ref_ind, rindex) ==
    IF ref_nums = <<>> THEN rindex
    ELSE LET ref_val == ref_ind[Head(ref_nums)]
         IN  RegisterRefs(Tail(ref_nums), key, ref_ind,
                 IF DictHas(rindex, ref_val) THEN rindex
                 ELSE DictSet(rindex, ref_val, key))

RECURSIVE SelectRepRefVals(_, _, _, _)
SelectRepRefVals(blocks, ref_ind, rep_ref_vals, rindex) ==
    IF blocks = <<>>
    THEN [rep_ref_vals |-> rep_ref_vals, rep_index |-> rindex]
    ELSE LET key == Head(blocks)[1]
         IN  SelectRepRefVals(Tail(blocks), ref_ind, rep_ref_vals \o key,
                              RegisterRefs(key, key, ref_ind, rindex))

-----------------------------------------------------------------------------
(* Sorted-neighbourhood indexer: build_index_alice / build_index_bob.      *)

Outcome(op, party, exc, value) ==
    [op |-> op, party |-> party, exc |-> exc, value |-> value]

(* The representative values a finished index exposes, lines 461-464.      *)
ExposedValues(rep_ref_vals, ref_ind) ==
    [x \in 1..Len(rep_ref_vals) |-> ref_ind[rep_ref_vals[x]]]

(* Lines 456-464 (508-517 for Bob): the assignments that follow the        *)
(* generation g of the index from the sorted reference values s.  When the *)
(* generation raises, the index, the representative index and the exposed  *)
(* values keep their old values.                                           *)
StoreIndex(p, attr_sel, refs, s, g) ==
    LET sel == SelectRepRefVals(g.block_dict, s.ref_ind_dict, <<>>, <<>>)
    IN  /\ ref_val_list' = [ref_val_list EXCEPT ![p] = Some(refs)]
        /\ attr_select_list' = [attr_select_list EXCEPT ![p] = Some(attr_sel)]
        /\ ref_ind_dict' = [ref_ind_dict EXCEPT ![p] = Some(s.ref_ind_dict)]
        /\ sort_ref_val_list' =
               [sort_ref_val_list EXCEPT ![p] = Some(s.sort_ref_val_list)]
        /\ IF g.raised = ""
           THEN /\ index' = [index EXCEPT ![p] = Some(g.block_dict)]
                /\ rep_index' = [rep_index EXCEPT ![p] = sel.rep_index]
                /\ rep_vals' = [rep_vals EXCEPT ![p] =
                       @ \o ExposedValues(sel.rep_ref_vals, s.ref_ind_dict)]
                /\ built' = [built EXCEPT ![p] = "ok"]
                /\ result' = Outcome("build_index", p, "", Len(g.block_dict))
           ELSE /\ UNCHANGED << index, rep_index, rep_vals >>
                /\ built' = [built EXCEPT ![p] = "failed"]
                /\ result' = Outcome("build_index", p, g.raised, 0)
        /\ UNCHANGED << snConfig, rec_dict, block_dict, gb, psVars >>

(* Lines 451-458: the index is generated from the sorted reference values. *)
GenerateAndStore(p, attr_sel, refs, s) ==
    StoreIndex(p, attr_sel, refs, s,
               GenerateSortedIndex(rec_dict[p].val, attr_sel,
                                   s.sort_ref_val_list, s.ref_ind_dict,
                                   k, min_sim_threshold, sim_or_size))

(* build_index_alice(attr_select_list) / build_index_bob(attr_select_list) *)
(* for party p, called after the caller has set the party's reference      *)
(* value list to refs.  The attribute selection and the sorted reference   *)
(* values are stored before the index is generated.  block_stats and the   *)
(* log file are collaborators outside this model.                          *)
build_index(p, attr_sel, refs) ==
    GenerateAndStore(p, attr_sel, refs, SortRefValues(refs))

build_index_alice(attr_sel, refs) == build_index("alice", attr_sel, refs)

build_index_bob(attr_sel, refs) == build_index("bob", attr_sel, refs)

-----------------------------------------------------------------------------
(* Sorted-neighbourhood indexer: generate_blocks.                          *)

RECURSIVE SortSet(_)
SortSet(S) ==
    IF S = {} THEN <<>>
    ELSE LET m == CHOOSE x \in S : \A y \in S : x = y \/ StrLess(x, y)
         IN  <<m>> \o SortSet(S \ {m})

(* list.remove: the first occurrence is dropped.                           *)
RECURSIVE ListRemove(_, _)
ListRemove(s, x) ==
    IF s = <<>> THEN <<>>
    ELSE IF Head(s) = x THEN Tail(s)
    ELSE <<Head(s)>> \o ListRemove(Tail(s), x)

(* Lines 557-565: the sorted union of the exposed values, sentinel dropped *)
RepValList(alice_rep_vals, bob_rep_vals) ==
    LET u == SortSet(Range(alice_rep_vals) \cup Range(bob_rep_vals))
    IN  IF SORTED_FIRST_VAL \in Range(u) THEN ListRemove(u, SORTED_FIRST_VAL)
        ELSE u

(* __window__: tee the iterable size times, advance the i-th copy by i,    *)
(* zip: one tuple per start index that has size elements left; zip of no   *)
(* iterators (size 0) yields nothing.                                      *)
window(lst, size) ==
    IF size = 0 \/ Len(lst) < size THEN <<>>
    ELSE [s \in 1..(Len(lst) - size + 1) |-> SubSeq(lst, s, s + size - 1)]

AppendNew(lst, x) == IF x \in Range(lst) THEN lst ELSE Append(lst, x)

(* Lines 577-585 and 595-602: account one value of the window.             *)
Classify(st, val, alice_rep_vals, bob_rep_vals) ==
    LET a == val \in Range(alice_rep_vals)
        b == val \in Range(bob_rep_vals)
    IN  [ this_window_list   |-> Append(st.this_window_list, val),
          num_alice_ref      |-> st.num_alice_ref + (IF a THEN 1 ELSE 0),
          num_bob_ref        |-> st.num_bob_ref + (IF b THEN 1 ELSE 0),
          this_win_alice_ref |-> IF a THEN AppendNew(st.this_win_alice_ref, val)
                                 ELSE st.this_win_alice_ref,
          this_win_bob_ref   |-> IF b THEN AppendNew(st.this_win_bob_ref, val)
                                 ELSE st.this_win_bob_ref ]

EmptyWindow ==
    [ this_window_list |-> <<>>, num_alice_ref |-> 0, num_bob_ref |-> 0,
      this_win_alice_ref |-> <<>>, this_win_bob_ref |-> <<>> ]

RECURSIVE ClassifyAll(_, _, _, _)
ClassifyAll(st, vals, alice_rep_vals, bob_rep_vals) ==
    IF vals = <<>> THEN st
    ELSE ClassifyAll(Classify(st, Head(vals), alice_rep_vals, bob_rep_vals),
                     Tail(vals), alice_rep_vals, bob_rep_vals)

IndexOf(lst, x) == (CHOOSE i \in 1..Len(lst) :
                       lst[i] = x /\ \A j \in 1..(i - 1) : lst[j] # x) - 1

(* Variant of line 587 with 'and' in place of 'or'.                        *)
NeedsExtensionBoth(st, ww) == st.num_alice_ref < ww /\ st.num_bob_ref < ww

(* The condition of the extension loop, line 587.                          *)
NeedsExtension(st, ww) == st.num_alice_ref < ww \/ st.num_bob_ref < ww

(* Lines 587-605: extend the window by the next value of the sorted union  *)
(* while one side has fewer than w values and values remain.               *)
RECURSIVE ExtendWindow(_, _, _, _, _)
ExtendWindow(st, rep_val_list, ww, alice_rep_vals, bob_rep_vals) ==
    IF NeedsExtension(st, ww)
    THEN LET last_ele    == st.this_window_list[Len(st.this_window_list)]
             current_pos == IndexOf(rep_val_list, last_ele)
         IN  IF current_pos + 1 < Len(rep_val_list)
             THEN ExtendWindow(
                      Classify(st, rep_val_list[current_pos + 2],
                               alice_rep_vals, bob_rep_vals),
                      rep_val_list, ww, alice_rep_vals, bob_rep_vals)
             ELSE st
    ELSE st

(* Variant of line 612 without the membership test.                        *)
IsNewPairUnchecked(cand_ref_list, pair) == TRUE

(* Whether a pair is appended to the candidate list, line 612.             *)
IsNewPair(cand_ref_list, pair) == pair \notin Range(cand_ref_list)

(* Lines 610-613: the pairs of one window, Alice's values outermost.       *)
RECURSIVE EmitPairs(_, _, _, _, _)
EmitPairs(cand, as, bs, ai, bi) ==
    IF ai > Len(as) THEN cand
    ELSE IF bi > Len(bs) THEN EmitPairs(cand, as, bs, ai + 1, 1)
    ELSE LET pair == <<as[ai], bs[bi]>>
         IN  EmitPairs(IF IsNewPair(cand, pair) THEN Append(cand, pair) ELSE cand,
                       as, bs, ai, bi + 1)

(* Lines 567-613: all windows in order.  wins records, per window, the     *)
(* window as it was when its pairs were emitted and the pairs it added.    *)
RECURSIVE MatchWindows(_, _, _, _, _, _)
MatchWindows(ws, rep_val_list, ww, alice_rep_vals, bob_rep_vals, acc) ==
    IF ws = <<>> THEN acc
    ELSE LET st0  == ClassifyAll(EmptyWindow, Head(ws), alice_rep_vals, bob_rep_vals)
             st   == ExtendWindow(st0, rep_val_list, ww, alice_rep_vals, bob_rep_vals)
             cand == EmitPairs(acc.cand_ref_list, st.this_win_alice_ref,
                               st.this_win_bob_ref, 1, 1)
         IN  MatchWindows(Tail(ws), rep_val_list, ww, alice_rep_vals, bob_rep_vals,
                 [ cand_ref_list |-> cand,
                   rep_val_list  |-> rep_val_list,
                   wins |-> Append(acc.wins,
                              [ window |-> st.this_window_list,
                                alice  |-> st.this_win_alice_ref,
                                bob    |-> st.this_win_bob_ref,
                                emitted |-> Len(st.this_win_alice_ref)
                                            * Len(st.this_win_bob_ref) ]) ])

WindowMatcher(alice_rep_vals, bob_rep_vals, ww) ==
    LET rep_val_list == RepValList(alice_rep_vals, bob_rep_vals)
    IN  MatchWindows(window(rep_val_list, ww * 2), rep_val_list, ww,
                     alice_rep_vals, bob_rep_vals,
                     [cand_ref_list |-> <<>>, rep_val_list |-> rep_val_list,
                      wins |-> <<>>])

(* Lines 618-629: resolve every candidate pair to the two record-id lists. *)
(* A value missing from a representative index, or a key missing from an   *)
(* index, raises KeyError; an index that is None raises TypeError.         *)
RECURSIVE ResolvePairs(_, _, _, _, _, _)
ResolvePairs(cand, a_rindex, b_rindex, a_index, b_index, blocks) ==
    IF cand = <<>> THEN [raised |-> "", block_dict |-> blocks]
    ELSE LET alice_rep == Head(cand)[1]
             bob_rep   == Head(cand)[2]
         IN  IF ~DictHas(a_rindex, alice_rep)
                 THEN [raised |-> "KeyError", block_dict |-> blocks]
             ELSE IF a_index.st # "set"
                 THEN [raised |-> "TypeError", block_dict |-> blocks]
             ELSE IF ~DictHas(a_index.val, DictGet(a_rindex, alice_rep))
                 THEN [raised |-> "KeyError", block_dict |-> blocks]
             ELSE IF ~DictHas(b_rindex, bob_rep)
                 THEN [raised |-> "KeyError", block_dict |-> blocks]
             ELSE IF b_index.st # "set"
                 THEN [raised |-> "TypeError", block_dict |-> blocks]
             ELSE IF ~DictHas(b_index.val, DictGet(b_rindex, bob_rep))
                 THEN [raised |-> "KeyError", block_dict |-> blocks]
             ELSE ResolvePairs(Tail(cand), a_rindex, b_rindex, a_index, b_index,
                      DictSet(blocks, Len(blocks),
                          << DictGet(a_index.val, DictGet(a_rindex, alice_rep)),
                             DictGet(b_index.val, DictGet(b_rindex, bob_rep)) >>))

NoLocals == [cand_ref_list |-> <<>>, rep_val_list |-> <<>>, wins |-> <<>>]

(* Lines 618-635: the candidate pairs of the matcher m are resolved and    *)
(* the block dictionary is stored.                                         *)
StoreBlocks(m, r) ==
    /\ gb' = m
    /\ IF r.raised = ""
       THEN /\ block_dict' = Some(r.block_dict)
            /\ result' = Outcome("generate_blocks", "", "", Len(r.block_dict))
       ELSE /\ UNCHANGED block_dict
            /\ result' = Outcome("generate_blocks", "", r.raised, 0)
    /\ UNCHANGED << snConfig, snParty, rec_dict, index, built, psVars >>

ResolveAndStore(m) ==
    StoreBlocks(m, ResolvePairs(m.cand_ref_list, rep_index["alice"],
                                rep_index["bob"], index["alice"], index["bob"],
                                <<>>))

(* generate_blocks of the sorted-neighbourhood indexer.  Reading an index  *)
(* attribute that was never assigned raises AttributeError (lines 544-545).*)
sn_generate_blocks ==
    IF index["alice"].st = "absent" \/ index["bob"].st = "absent"
    THEN /\ result' = Outcome("generate_blocks", "", "AttributeError", 0)
         /\ gb' = NoLocals
         /\ UNCHANGED << snConfig, snParty, rec_dict, index, block_dict,
                         built, psVars >>
    ELSE ResolveAndStore(WindowMatcher(rep_vals["alice"], rep_vals["bob"], w))

-----------------------------------------------------------------------------
(* p-sig indexer: Bloom filters and n-grams.                               *)

(* Python's %: the result has the sign of the divisor.  A zero divisor     *)
(* raises ZeroDivisionError and is handled by the callers.                 *)
PyMod(a, m) == IF m > 0 THEN a % m ELSE 0 - ((0 - a) % (0 - m))

RECURSIVE Digest1(_)
Digest1(s) == IF s = <<>> THEN 0 ELSE 3 * Digest1(SubSeq(s, 1, Len(s) - 1)) + s[Len(s)]

RECURSIVE Digest2(_)
Digest2(s) == IF s = <<>> THEN 1 ELSE Digest2(SubSeq(s, 1, Len(s) - 1)) + Len(s) * s[Len(s)]

(* The bit position of hash function i, lines 101-102.                     *)
BitPosition(int1, int2, i, L) == PyMod(int1 + i * int2, L)

(* Variant of line 100 with range(1, num_hash_funct + 1).                  *)
ngram2bfOneBased(ngram, H, L) ==
    { BitPosition(Digest1(ngram), Digest2(ngram), i, L) : i \in 1..H }

(* ngram2bf: range(num_hash_funct) is empty for a count <= 0.              *)
ngram2bf(ngram, H, L) ==
    { BitPosition(Digest1(ngram), Digest2(ngram), i, L) : i \in 0..(H - 1) }

(* ngram2bf raises ZeroDivisionError: a bit is computed modulo zero.       *)
Ngram2bfRaises(H, L) == H > 0 /\ L = 0

create_bloom_filter(ngrams, H, L) == UNION { ngram2bf(g, H, L) : g \in ngrams }

RECURSIVE Repeat(_, _)
Repeat(c, n) == IF n <= 0 THEN <<>> ELSE c \o Repeat(c, n - 1)

(* The q-grams of ps, lines 66 and 123-124: ps[i : i + QGRAM_LEN] for i in *)
(* range(len(ps) - (QGRAM_LEN - 1)).                                       *)
QGrams(ps) ==
    [i \in 1..(IF Len(ps) - (QGRAM_LEN - 1) > 0 THEN Len(ps) - (QGRAM_LEN - 1) ELSE 0)
        |-> SubSeq(ps, i, i + QGRAM_LEN - 1)]

(* The q-gram list of __str2bf__, lines 59-66: padded when QGRAM_PADDING.  *)
Str2bfQGrams(str, padding) ==
    QGrams(IF padding
           THEN Repeat(PADDING_START_CHAR, QGRAM_LEN - 1) \o str
                \o Repeat(PADDING_END_CHAR, QGRAM_LEN - 1)
           ELSE str)

(* The string get_ngram cuts into n-grams, lines 119-120.                  *)
JoinedValue(rec, attr_list) ==
    Concat([x \in 1..Len(attr_list) |-> rec[attr_list[x] + 1]])

(* The n-grams get_ngram takes from one record, lines 121-124.             *)
RecordNGrams(rec, attr_list) == QGrams(JoinedValue(rec, attr_list))

(* Lines 126-129: the record key is appended to the n-gram's list.         *)
RECURSIVE AddGrams(_, _, _)
AddGrams(grams, key, dict) ==
    IF grams = <<>> THEN dict
    ELSE AddGrams(Tail(grams), key,
             IF DictHas(dict, Head(grams))
             THEN DictSet(dict, Head(grams), Append(DictGet(dict, Head(grams)), key))
             ELSE DictSet(dict, Head(grams), <<key>>))

(* get_ngram: the n-gram set of the records and the dictionary it was      *)
(* given, updated in place.                                                *)
RECURSIVE get_ngram(_, _, _, _)
get_ngram(records, dict, attr_list, ngrams) ==
    IF records = <<>> THEN [ngrams |-> ngrams, ngram_dict |-> dict]
    ELSE LET grams == RecordNGrams(Head(records)[2], attr_list)
         IN  get_ngram(Tail(records),
                       AddGrams(grams, Head(records)[1], dict),
                       attr_list, ngrams \cup Range(grams))

(* Variant of line 167 that accepts any overlap with the common filter.    *)
KeepsEntryOnOverlap(bf, common) == (bf \cap common) # {}

(* The containment test of microblocks, line 167.                          *)
KeepsEntry(bf, common) == (bf \cap common) = bf

(* Variant of microblocks without the test of line 167.                    *)
microblocksUnfiltered(common, dict, H, L) == dict

(* microblocks: the entries of ngram_dict whose own filter passes.         *)
RECURSIVE microblocks(_, _, _, _)
microblocks(common, dict, H, L) ==
    IF dict = <<>> THEN <<>>
    ELSE LET rest == microblocks(common, Tail(dict), H, L)
         IN  IF KeepsEntry(ngram2bf(Head(dict)[1], H, L), common)
             THEN <<Head(dict)>> \o rest
             ELSE rest

(* The id lists are Python list objects shared by reference: microblocks  *)
(* stores the very list of ngram_dict (line 168) and generate_blocks the   *)
(* very lists of the two indexes (line 208).  An append of get_ngram (line *)
(* 127) is therefore seen through the index and through block_dict.        *)
SharedIndex(idx, dict) ==
    IF idx.st # "set" THEN idx
    ELSE Some([i \in 1..Len(idx.val) |->
                  << idx.val[i][1], DictGet(dict, idx.val[i][1]) >>])

SharedBlocks(blocks, ids, dicts) ==
    IF blocks.st # "set" THEN blocks
    ELSE Some([i \in 1..Len(blocks.val) |->
                  << blocks.val[i][1],
                     << DictGet(dicts["alice"], ids[i]),
                        DictGet(dicts["bob"], ids[i]) >> >>])

(* The block ids generate_blocks joins, in the order of Alice's index.     *)
RECURSIVE JoinedIds(_, _)
JoinedIds(a_index, b_index) ==
    IF a_index = <<>> THEN <<>>
    ELSE (IF DictHas(b_index, Head(a_index)[1])
          THEN << Head(a_index)[1] >> ELSE <<>>)
         \o JoinedIds(Tail(a_index), b_index)

(* Variant of line 208 that stores Alice's list on both sides.             *)
RECURSIVE JoinBlocksAliceOnly(_, _, _)
JoinBlocksAliceOnly(a_index, b_index, blocks) ==
    IF a_index = <<>> THEN blocks
    ELSE JoinBlocksAliceOnly(Tail(a_index), b_index,
             IF DictHas(b_index, Head(a_index)[1])
             THEN DictSet(blocks, Len(blocks),
                          << Head(a_index)[2], Head(a_index)[2] >>)
             ELSE blocks)

(* The loop of generate_blocks, lines 204-209.                             *)
RECURSIVE JoinBlocks(_, _, _)
JoinBlocks(a_index, b_index, blocks) ==
    IF a_index = <<>> THEN blocks
    ELSE JoinBlocks(Tail(a_index), b_index,
             IF DictHas(b_index, Head(a_index)[1])
             THEN DictSet(blocks, Len(blocks),
                          << Head(a_index)[2], DictGet(b_index, Head(a_index)[1]) >>)
             ELSE blocks)

-----------------------------------------------------------------------------
(* p-sig indexer: the operations.                                          *)

(* What alice_bloom_filter / bob_bloom_filter does to party p: get_ngram   *)
(* updates the party's dictionary in place; the filter is assigned unless  *)
(* create_bloom_filter raises.                                             *)
BloomFilterOf(p, attr_list, dicts, bfs) ==
    LET res == get_ngram(rec_dict[p].val, dicts[p], attr_list, {})
        bad == res.ngrams # {} /\ Ngram2bfRaises(num_hash_funct, bf_len)
    IN  [ raised |-> IF bad THEN "ZeroDivisionError" ELSE "",
          dicts  |-> [dicts EXCEPT ![p] = res.ngram_dict],
          bfs    |-> IF bad THEN bfs
                     ELSE [bfs EXCEPT ![p] =
                              Some(create_bloom_filter(res.ngrams,
                                       num_hash_funct, bf_len))] ]

(* Lines 138-139 (148-149): the filter and the dictionary are stored; the  *)
(* appended ids show through the index and the block dictionary.           *)
StoreFilter(p, r) ==
        /\ ngram_dict' = r.dicts
        /\ party_bf' = r.bfs
        /\ calls' = [calls EXCEPT ![p] = @ + 1]
        /\ index' = [q \in Party |-> SharedIndex(index[q], r.dicts[q])]
        /\ block_dict' = SharedBlocks(block_dict, block_ids, r.dicts)
        /\ result' = Outcome("bloom_filter", p, r.raised, 0)
        /\ UNCHANGED << snConfig, snParty, psConfig, rec_dict, common_bf,
                        block_ids, built, gb >>

party_bloom_filter(p, attr_list) ==
    StoreFilter(p, BloomFilterOf(p, attr_list, ngram_dict, party_bf))

alice_bloom_filter(attr_list) == party_bloom_filter("alice", attr_list)

bob_bloom_filter(attr_list) == party_bloom_filter("bob", attr_list)

(* common_bloom_filter: both party filters are (re)built when one of them  *)
(* is missing, Alice's first; then the intersection is stored.             *)
common_bloom_filter(attr_list) ==
    LET rebuild == party_bf["alice"].st # "set" \/ party_bf["bob"].st # "set"
        ra == BloomFilterOf("alice", attr_list, ngram_dict, party_bf)
        rb == BloomFilterOf("bob", attr_list, ra.dicts, ra.bfs)
        dicts  == IF ~rebuild THEN ngram_dict
                  ELSE IF ra.raised # "" THEN ra.dicts ELSE rb.dicts
        bfs    == IF ~rebuild THEN party_bf
                  ELSE IF ra.raised # "" THEN ra.bfs ELSE rb.bfs
        raised == IF ~rebuild THEN ""
                  ELSE IF ra.raised # "" THEN ra.raised ELSE rb.raised
    IN  /\ ngram_dict' = dicts
        /\ party_bf' = bfs
        /\ calls' = IF ~rebuild THEN calls
                    ELSE IF ra.raised # ""
                         THEN [calls EXCEPT !["alice"] = @ + 1]
                         ELSE [p \in Party |-> calls[p] + 1]
        /\ IF raised = ""
           THEN common_bf' = Some(bfs["alice"].val \cap bfs["bob"].val)
           ELSE UNCHANGED common_bf
        /\ index' = [q \in Party |-> SharedIndex(index[q], dicts[q])]
        /\ block_dict' = SharedBlocks(block_dict, block_ids, dicts)
        /\ result' = Outcome("common_bloom_filter", "", raised, 0)
        /\ UNCHANGED << snConfig, snParty, psConfig, rec_dict, block_ids,
                        built, gb >>

(* build_index_alice / build_index_bob of the p-sig indexer: the asserts   *)
(* of lines 174-176, then the micro blocks become the party's index.       *)
ps_build_index(p) ==
    LET raised == IF common_bf.st # "set" THEN "AssertionError"
                  ELSE IF ngram_dict[p] # <<>>
                          /\ Ngram2bfRaises(num_hash_funct, bf_len)
                       THEN "ZeroDivisionError"
                  ELSE ""
    IN  /\ IF raised = ""
           THEN index' = [index EXCEPT ![p] =
                       Some(microblocks(common_bf.val, ngram_dict[p],
                                        num_hash_funct, bf_len))]
           ELSE UNCHANGED index
        /\ result' = Outcome("build_index", p, raised, 0)
        /\ UNCHANGED << snConfig, snParty, psVars, rec_dict, block_dict,
                        built, gb >>

ps_build_index_alice == ps_build_index("alice")

ps_build_index_bob == ps_build_index("bob")

(* generate_blocks of the p-sig indexer, lines 197-212.  index_alice.items *)
(* raises AttributeError on an unassigned or None index; index_bob.get is  *)
(* only reached when Alice's index has an entry.                           *)
ps_generate_blocks ==
    LET raised ==
            IF index["alice"].st # "set" \/ index["bob"].st = "absent"
                THEN "AttributeError"
            ELSE IF index["bob"].st = "none" /\ index["alice"].val # <<>>
                THEN "AttributeError"
            ELSE ""
        blocks == JoinBlocks(index["alice"].val, index["bob"].val, <<>>)
    IN  /\ IF raised = ""
           THEN /\ block_dict' = Some(blocks)
                /\ block_ids' = JoinedIds(index["alice"].val, index["bob"].val)
                /\ result' = Outcome("generate_blocks", "", "", Len(blocks))
           ELSE /\ UNCHANGED << block_dict, block_ids >>
                /\ result' = Outcome("generate_blocks", "", raised, 0)
        /\ UNCHANGED << snConfig, snParty, psState, rec_dict, index, built, gb >>

-----------------------------------------------------------------------------
(* Inputs of the sorted-neighbourhood specifications.                      *)

SeqsUpTo(S, n) == UNION { [1..m -> S] : m \in 0..n }

(* Reference values "1" < "12" < "2" < "3", and "31" < "32" for the        *)
(* two-party runs.                                                         *)
RefPool  == { <<1>>, <<1, 2>>, <<2>>, <<3>> }
WidePool == RefPool \cup { <<3, 1>>, <<3, 2>> }

(* Records of two attributes: ("1","2"), ("2",""), ("3","1").              *)
RecPool == { << <<1>>, <<2>> >>, << <<2>>, <<>> >>, << <<3>>, <<1>> >> }

AttrSelections == { <<0>>, <<0, 1>> }

(* A loaded record table: record ids 1..n in insertion order.              *)
RecTables ==
    { [i \in 1..Len(rs) |-> <<i, rs[i]>>] : rs \in SeqsUpTo(RecPool, MaxRecs) }

(* Any list of reference values, unsorted and with repetitions.            *)
RefLists == SeqsUpTo(RefPool, MaxRefs)

Thresholds == { 50, 100 }

PsIdle ==
    /\ num_hash_funct = 0
    /\ bf_len = 0
    /\ QGRAM_PADDING = FALSE
    /\ party_bf = [p \in Party |-> None]
    /\ common_bf = None
    /\ ngram_dict = [p \in Party |-> <<>>]
    /\ calls = [p \in Party |-> 0]
    /\ block_ids = <<>>

(* The state after __init__ (lines 49-68) and the loading of both record   *)
(* tables.  Whether PPRLIndex leaves index_alice, index_bob and block_dict *)
(* unassigned or None is not decided by the two classes: both are allowed. *)
SnConstructed(ks, ws, ts, modes, tables, unbuilt) ==
    /\ k \in ks
    /\ w \in ws
    /\ min_sim_threshold \in ts
    /\ sim_or_size \in modes
    /\ rec_dict \in tables
    /\ \E u \in unbuilt : /\ index = [p \in Party |-> u]
                          /\ block_dict = u
    /\ ref_val_list = [p \in Party |-> None]
    /\ attr_select_list = [p \in Party |-> None]
    /\ ref_ind_dict = [p \in Party |-> None]
    /\ sort_ref_val_list = [p \in Party |-> None]
    /\ rep_vals = [p \in Party |-> <<>>]
    /\ rep_index = [p \in Party |-> <<>>]
    /\ built = [p \in Party |-> "never"]
    /\ result = Outcome("__init__", "", "", 0)
    /\ gb = NoLocals
    /\ PsIdle

NeverBuilt(p) == built[p] = "never"

-----------------------------------------------------------------------------
(* SpecParty: the pipeline of one party (Alice), one build_index call,     *)
(* over every configuration, record table and reference-value list of the *)
(* bounds.  Bob holds the same table and does not build.                   *)

InitParty ==
    SnConstructed(0..MaxK, {1}, Thresholds, {"SIM", "SIZE"},
                  { [p \in Party |-> Some(t)] : t \in RecTables }, {None})

NextParty ==
    \E attr_sel \in AttrSelections, refs \in RefLists :
        NeverBuilt("alice") /\ build_index_alice(attr_sel, refs)

SpecParty == InitParty /\ [][NextParty]_vars

-----------------------------------------------------------------------------
(* Spec: both parties build once (section 6: build_index, one call per     *)
(* party) in either order, and generate_blocks is called at any time.      *)

(* Strictly increasing lists of up to MaxExposed + 1 reference values.     *)
IncreasingRefLists ==
    UNION { IF \A i \in 1..Len(s), j \in 1..Len(s) : i < j => StrLess(s[i], s[j])
            THEN {s} ELSE {} : s \in SeqsUpTo(WidePool, MaxExposed + 1) }

TwoPartyTables ==
    { [p \in Party |-> Some(t)] :
          t \in { << <<1, << <<1>>, <<2>> >> >>, <<2, << <<3>>, <<1>> >> >> >> } }

Init ==
    SnConstructed({1}, 0..MaxW, {100}, {"SIM"}, TwoPartyTables, {Absent, None})

Next ==
    \/ \E refs \in IncreasingRefLists :
           NeverBuilt("alice") /\ build_index_alice(<<0>>, refs)
    \/ \E refs \in IncreasingRefLists :
           NeverBuilt("bob") /\ build_index_bob(<<0>>, refs)
    \/ sn_generate_blocks

Spec == Init /\ [][Next]_vars

-----------------------------------------------------------------------------
(* SpecRebuild: as Spec with w = 1 and non-empty reference-value lists,    *)
(* but Alice may call build_index again with another reference-value list  *)
(* while her exposed list holds at most MaxExposed values.                  *)

(* Strictly increasing lists of 1..MaxRefs reference values.               *)
RebuildRefLists ==
    UNION { IF \A i \in 1..Len(s), j \in 1..Len(s) : i < j => StrLess(s[i], s[j])
            THEN {s} ELSE {} : s \in SeqsUpTo(RefPool, MaxRefs) \ { <<>> } }

MayBuild(p) == Len(rep_vals[p]) <= MaxExposed

InitRebuild ==
    SnConstructed({1}, {1}, {100}, {"SIM"}, TwoPartyTables, {None})

NextRebuild ==
    \/ \E refs \in RebuildRefLists :
           MayBuild("alice") /\ build_index_alice(<<0>>, refs)
    \/ \E refs \in RebuildRefLists :
           NeverBuilt("bob") /\ build_index_bob(<<0>>, refs)
    \/ sn_generate_blocks

SpecRebuild == InitRebuild /\ [][NextRebuild]_vars

-----------------------------------------------------------------------------
(* SpecPS: the p-sig indexer.  Every operation may be called at any time;  *)
(* get_ngram runs at most MaxCalls times per party.                        *)

(* Records of two attributes: ("12","1") with the bigrams 12, 21 and       *)
(* ("11","12") with the bigrams 11, 11, 12.  A table holds none, one or    *)
(* both of them under the record ids 1, 2.                                 *)
PsRecords == << << <<1, 2>>, <<1>> >>, << <<1, 1>>, <<1, 2>> >> >>

PsTables ==
    { <<>>,
      << <<1, PsRecords[1]>> >>,
      << <<1, PsRecords[2]>> >>,
      << <<1, PsRecords[1]>>, <<2, PsRecords[2]>> >> }

PsAttrLists == { <<0, 1>> }

BfLens == { 0 - 1, 0, 2, 3 }

SnIdle ==
    /\ k = 0
    /\ w = 0
    /\ min_sim_threshold = 0
    /\ sim_or_size = "SIM"
    /\ ref_val_list = [p \in Party |-> None]
    /\ attr_select_list = [p \in Party |-> None]
    /\ ref_ind_dict = [p \in Party |-> None]
    /\ sort_ref_val_list = [p \in Party |-> None]
    /\ rep_vals = [p \in Party |-> <<>>]
    /\ rep_index = [p \in Party |-> <<>>]
    /\ gb = NoLocals

(* The state after __init__ (lines 33-40) and the loading of both tables.  *)
InitPS ==
    /\ num_hash_funct \in 0..MaxHash
    /\ bf_len \in BfLens
    /\ QGRAM_PADDING \in BOOLEAN
    /\ party_bf = [p \in Party |-> None]
    /\ common_bf = None
    /\ ngram_dict = [p \in Party |-> <<>>]
    /\ calls = [p \in Party |-> 0]
    /\ block_ids = <<>>
    /\ rec_dict \in [Party -> { Some(t) : t \in PsTables }]
    /\ \E u \in {Absent, None} : /\ index = [p \in Party |-> u]
                                 /\ block_dict = u
    /\ built = [p \in Party |-> "never"]
    /\ result = Outcome("__init__", "", "", 0)
    /\ SnIdle

CallsLeft(p) == calls[p] < MaxCalls

NextPS ==
    \/ \E a \in PsAttrLists : CallsLeft("alice") /\ alice_bloom_filter(a)
    \/ \E a \in PsAttrLists : CallsLeft("bob") /\ bob_bloom_filter(a)
    \/ \E a \in PsAttrLists :
           /\ \/ party_bf["alice"].st = "set" /\ party_bf["bob"].st = "set"
              \/ CallsLeft("alice") /\ CallsLeft("bob")
           /\ common_bloom_filter(a)
    \/ ps_build_index_alice
    \/ ps_build_index_bob
    \/ ps_generate_blocks

SpecPS == InitPS /\ [][NextPS]_vars

-----------------------------------------------------------------------------
(* Properties of the sorted-neighbourhood index (SpecParty).               *)

AliceBuilt == built["alice"] = "ok"

AliceBuckets == index["alice"].val

FirstGroup ==
    GrowGroup(0, 0, 0, <<>>, 0, ref_ind_dict["alice"].val,
              RefValDict(rec_dict["alice"].val, attr_select_list["alice"].val,
                         sort_ref_val_list["alice"].val,
                         ref_ind_dict["alice"].val),
              k, min_sim_threshold)

C6_SizeModeFormsBuckets ==
    ( /\ AliceBuilt
      /\ sim_or_size = "SIZE"
      /\ rec_dict["alice"].val # <<>>
      /\ ref_val_list["alice"].val # <<>> ) =>
        \E x \in 1..Len(AliceBuckets) : AliceBuckets[x][2] # <<>>

(* C8: a build that fails on merge underflow reports an error and leaves   *)
(* the party's position index, sorted reference list, index,               *)
(* representative index and exposed values exactly as they were.           *)
C8_UnderflowLeavesStateAsBefore ==
    [][ (built["alice"] = "never" /\ built'["alice"] = "failed") =>
            /\ result'.exc # ""
            /\ UNCHANGED << ref_ind_dict, sort_ref_val_list, index,
                            rep_index, rep_vals >> ]_vars

(* The values of block_dict during Alice's last sweep.                     *)
AliceSweepPoints ==
    SweepPoints(0, <<>>, ref_ind_dict["alice"].val,
                RefValDict(rec_dict["alice"].val, attr_select_list["alice"].val,
                           sort_ref_val_list["alice"].val,
                           ref_ind_dict["alice"].val),
                k, min_sim_threshold)

KeyIsContiguous(key) == \A x \in 1..(Len(key) - 1) : key[x + 1] = key[x] + 1

KeysAreDisjoint(blocks) ==
    \A x, y \in 1..Len(blocks) :
        x # y => Range(blocks[x][1]) \cap Range(blocks[y][1]) = {}

KeysWellFormed(blocks) ==
    /\ \A x \in 1..Len(blocks) : KeyIsContiguous(blocks[x][1])
    /\ KeysAreDisjoint(blocks)

(* C11: at every point of the SIM merge sweep and in the final index the   *)
(* positions of each bucket key are contiguous and strictly increasing,    *)
(* and no position occurs in the keys of two buckets.                      *)
C11_KeysContiguousAndDisjoint ==
    (built["alice"] # "never" /\ sim_or_size = "SIM") =>
        /\ \A x \in 1..Len(AliceSweepPoints) : KeysWellFormed(AliceSweepPoints[x])
        /\ AliceBuilt => KeysWellFormed(AliceBuckets)

(* A completed sweep whose final bucket key, after a backward merge,       *)
(* extends the key the bucket had at an earlier point to three or more     *)
(* positions.                                                              *)
C11_MergedKeyExtendsEarlierKey ==
    /\ AliceBuilt
    /\ sim_or_size = "SIM"
    /\ k >= 1
    /\ Len(AliceBuckets) = 1
    /\ Len(AliceBuckets[1][1]) >= 3
    /\ \E x \in 1..Len(AliceSweepPoints) :
          /\ Len(AliceSweepPoints[x]) = 1
          /\ Len(AliceSweepPoints[x][1][1]) < Len(AliceBuckets[1][1])
          /\ AliceSweepPoints[x][1][1] =
                 SubSeq(AliceBuckets[1][1], 1, Len(AliceSweepPoints[x][1][1]))

(* The record ids Alice's records put at position pos (lines 263-283).     *)
AliceIdsAt(pos) ==
    RefValDict(rec_dict["alice"].val, attr_select_list["alice"].val,
               sort_ref_val_list["alice"].val,
               ref_ind_dict["alice"].val)[ref_ind_dict["alice"].val[pos]]

AliceLastPosition == Len(sort_ref_val_list["alice"].val)

(* The reference rule of the sweep over the positions 0..N: the group      *)
(* whose last position is last is extended with the next position while it *)
(* holds <= k records or the next reference value is similar enough.       *)
RECURSIVE RuleGroup(_, _)
RuleGroup(last, elems) ==
    IF /\ last < AliceLastPosition
       /\ \/ Len(elems) <= k
          \/ sim_measure(ref_ind_dict["alice"].val[last],
                         ref_ind_dict["alice"].val[last + 1]) >= min_sim_threshold
    THEN RuleGroup(last + 1, elems \o AliceIdsAt(last + 1))
    ELSE [last |-> last, elems |-> elems]

(* The buckets of the reference rule from position i on; a trailing        *)
(* undersized group is merged into the bucket before it.                   *)
RECURSIVE RuleBuckets(_, _)
RuleBuckets(i, blocks) ==
    IF i > AliceLastPosition THEN blocks
    ELSE LET g == RuleGroup(i, AliceIdsAt(i))
             key == [b \in 1..(g.last - i + 1) |-> i + b - 1]
         IN  IF Len(g.elems) < k /\ blocks # <<>>
             THEN RuleBuckets(g.last + 1,
                      SubSeq(blocks, 1, Len(blocks) - 1) \o
                      << << blocks[Len(blocks)][1] \o key,
                            g.elems \o blocks[Len(blocks)][2] >> >>)
             ELSE RuleBuckets(g.last + 1, Append(blocks, << key, g.elems >>))

(* C14: the buckets of a completed SIM build of a party with records and   *)
(* reference values are those of the reference rule swept over the         *)
(* positions 0..N.                                                         *)
C14_BucketsFollowSweepRule ==
    ( /\ AliceBuilt
      /\ sim_or_size = "SIM"
      /\ rec_dict["alice"].val # <<>>
      /\ sort_ref_val_list["alice"].val # <<>> ) =>
        AliceBuckets = RuleBuckets(0, <<>>)

(* The places (bucket, place in its id list) where rec_id occurs.          *)
AlicePlacesOf(rec_id) ==
    UNION { { <<x, y>> : y \in { z \in 1..Len(AliceBuckets[x][2]) :
                                     AliceBuckets[x][2][z] = rec_id } } :
                x \in 1..Len(AliceBuckets) }

AliceRefsDistinct ==
    /\ ref_val_list["alice"].val # <<>>
    /\ \A x, y \in 1..Len(ref_val_list["alice"].val) :
           ref_val_list["alice"].val[x] = ref_val_list["alice"].val[y] => x = y

(* C15: after a completed SIM build with distinct reference values every   *)
(* record id of the party's table occurs in exactly one bucket, once.      *)
C15_EveryRecordInOneBucket ==
    (AliceBuilt /\ sim_or_size = "SIM" /\ AliceRefsDistinct) =>
        \A r \in 1..Len(rec_dict["alice"].val) :
            Cardinality(AlicePlacesOf(rec_dict["alice"].val[r][1])) = 1

-----------------------------------------------------------------------------
(* Properties of generate_blocks of the sorted-neighbourhood indexer       *)
(* (Spec).                                                                 *)

GenerateBlocksReturned == result.op = "generate_blocks" /\ result.exc = ""

(* C2: generate_blocks returns normally only when both parties' indexes    *)
(* have been built successfully; otherwise it raises.                      *)
C2_GenerateBlocksNeedsBothBuilds ==
    GenerateBlocksReturned => (built["alice"] = "ok" /\ built["bob"] = "ok")

(* C4: the candidate pair list of a generate_blocks run never holds the    *)
(* same (Alice value, Bob value) pair twice.                               *)
C4_NoPairTwice ==
    \A x, y \in 1..Len(gb.cand_ref_list) :
        gb.cand_ref_list[x] = gb.cand_ref_list[y] => x = y

(* A run in which one pair lies in two different windows.                  *)
C4_PairInTwoWindows ==
    /\ GenerateBlocksReturned
    /\ \E x, y \in 1..Len(gb.wins) :
          /\ x < y
          /\ Range(gb.wins[x].alice) \cap Range(gb.wins[y].alice) # {}
          /\ Range(gb.wins[x].bob) \cap Range(gb.wins[y].bob) # {}

WindowHasW(win) == Len(win.alice) >= w /\ Len(win.bob) >= w

ReachesEndOfUnion(win) ==
    win.window[Len(win.window)] = gb.rep_val_list[Len(gb.rep_val_list)]

(* C5 as stated: every window that emits pairs holds at least w distinct   *)
(* values of Alice and at least w distinct values of Bob.                  *)
C5_EmittingWindowHasWOfEach ==
    \A x \in 1..Len(gb.wins) :
        gb.wins[x].emitted > 0 => WindowHasW(gb.wins[x])

(* C5 amended: every window that emits pairs holds at least w distinct     *)
(* values of Alice and of Bob, or has been extended up to the last value   *)
(* of the sorted union.                                                    *)
C5_EmittingWindowHasWOrIsExhausted ==
    \A x \in 1..Len(gb.wins) :
        gb.wins[x].emitted > 0 =>
            WindowHasW(gb.wins[x]) \/ ReachesEndOfUnion(gb.wins[x])

(* A window of w = 2 that was extended past its 2 * w values, emits pairs  *)
(* and holds w values of each party.                                       *)
C5_ExtendedWindowEmits ==
    /\ GenerateBlocksReturned
    /\ w = 2
    /\ \E x \in 1..Len(gb.wins) :
          /\ Len(gb.wins[x].window) > 2 * w
          /\ gb.wins[x].emitted > 0
          /\ WindowHasW(gb.wins[x])

(* The non-sentinel values both parties expose.                            *)
SharedExposedValues ==
    (Range(rep_vals["alice"]) \cap Range(rep_vals["bob"])) \ {SORTED_FIRST_VAL}

(* The record-id list of the bucket of party p that owns the value v.      *)
OwningBucket(p, v) == DictGet(index[p].val, DictGet(rep_index[p], v))

(* C16: for w >= 1, when both parties are built and generate_blocks        *)
(* returns, every non-sentinel value both parties expose is emitted as the *)
(* pair (v, v) and the candidate table joins the two buckets that own it.  *)
C16_SharedValueIsMatched ==
    ( /\ GenerateBlocksReturned
      /\ w >= 1
      /\ built["alice"] = "ok"
      /\ built["bob"] = "ok" ) =>
        \A v \in SharedExposedValues :
            /\ <<v, v>> \in Range(gb.cand_ref_list)
            /\ \E x \in 1..Len(block_dict.val) :
                  block_dict.val[x][2] =
                      << OwningBucket("alice", v), OwningBucket("bob", v) >>

-----------------------------------------------------------------------------
(* Properties of rebuilding a party's index (SpecRebuild).                 *)

(* The value v of party p resolves: it is a key of the representative      *)
(* index and the bucket key it maps to is a key of the index.              *)
Resolves(p, v) ==
    /\ DictHas(rep_index[p], v)
    /\ index[p].st = "set"
    /\ DictHas(index[p].val, DictGet(rep_index[p], v))

(* C17: after successful builds, rebuilds with another reference-value     *)
(* list included, every value a party exposes resolves through its current *)
(* representative index to a bucket of its current index, and              *)
(* generate_blocks does not fail to resolve a candidate pair.              *)
C17_ExposedValuesResolve ==
    /\ \A p \in Party :
           built[p] = "ok" => \A x \in 1..Len(rep_vals[p]) :
                                  Resolves(p, rep_vals[p][x])
    /\ ( /\ result.op = "generate_blocks"
         /\ built["alice"] = "ok"
         /\ built["bob"] = "ok" ) => result.exc # "KeyError"

-----------------------------------------------------------------------------
(* Properties of the p-sig indexer (SpecPS).                               *)

NGramFilter(gram) == ngram2bf(gram, num_hash_funct, bf_len)

BuiltIndexOf(p) ==
    result.op = "build_index" /\ result.party = p /\ result.exc = ""

(* C3: after build_index of a party, an entry of the party's n-gram        *)
(* dictionary is in the party's index, with its id list unchanged, if and  *)
(* only if the n-gram's own Bloom filter is a subset of the common filter. *)
C3_KeptIffFilterContained ==
    \A p \in Party :
        BuiltIndexOf(p) =>
            /\ DictKeys(index[p].val) \subseteq DictKeys(ngram_dict[p])
            /\ \A x \in 1..Len(ngram_dict[p]) :
                  LET gram == ngram_dict[p][x][1]
                  IN  /\ DictHas(index[p].val, gram)
                          <=> NGramFilter(gram) \subseteq common_bf.val
                      /\ DictHas(index[p].val, gram)
                          => DictGet(index[p].val, gram) = ngram_dict[p][x][2]

(* An n-gram whose filter overlaps the common filter without being inside  *)
(* it has been left out of a built index that kept another n-gram.         *)
C3_OverlappingNGramExcluded ==
    \E p \in Party :
        /\ BuiltIndexOf(p)
        /\ index[p].val # <<>>
        /\ \E x \in 1..Len(ngram_dict[p]) :
              LET gram == ngram_dict[p][x][1]
              IN  /\ NGramFilter(gram) \cap common_bf.val # {}
                  /\ ~(NGramFilter(gram) \subseteq common_bf.val)
                  /\ ~DictHas(index[p].val, gram)

(* C7: with bf_len <= 0 or num_hash_funct <= 0 no Bloom filter, n-gram     *)
(* dictionary, index or candidate table is ever produced.                  *)
C7_BadConfigurationProducesNothing ==
    (bf_len <= 0 \/ num_hash_funct <= 0) =>
        /\ \A p \in Party : /\ party_bf[p].st # "set"
                            /\ ngram_dict[p] = <<>>
                            /\ index[p].st # "set"
        /\ common_bf.st # "set"
        /\ block_dict.st # "set"

OneRun == \A p \in Party : calls[p] = 1

SharedNGrams == DictKeys(ngram_dict["alice"]) \cap DictKeys(ngram_dict["bob"])

(* C9: after one run of the pipeline the candidate table has exactly one   *)
(* entry per n-gram both parties hold, that pairs Alice's id list of the   *)
(* n-gram with Bob's; its ids are 0..n-1 and the returned count is n.      *)
C9_TableIsTheSharedNGrams ==
    (OneRun /\ GenerateBlocksReturned) =>
        /\ Len(block_dict.val) = Cardinality(SharedNGrams)
        /\ result.value = Cardinality(SharedNGrams)
        /\ Len(block_ids) = Len(block_dict.val)
        /\ \A x \in 1..Len(block_dict.val) : block_dict.val[x][1] = x - 1
        /\ \A gram \in SharedNGrams :
              \E x \in 1..Len(block_ids) :
                  /\ block_ids[x] = gram
                  /\ \A y \in 1..Len(block_ids) : block_ids[y] = gram => y = x
                  /\ block_dict.val[x][2] =
                         << DictGet(ngram_dict["alice"], gram),
                            DictGet(ngram_dict["bob"], gram) >>

(* One run that ends with two candidate blocks while Alice holds an        *)
(* n-gram Bob does not and the id lists of a block differ.                 *)
C9_TwoSharedOneUnshared ==
    /\ OneRun
    /\ GenerateBlocksReturned
    /\ num_hash_funct > 0
    /\ bf_len > 0
    /\ Len(block_dict.val) = 2
    /\ DictKeys(ngram_dict["alice"]) \ SharedNGrams # {}
    /\ \E x \in 1..Len(block_dict.val) :
          block_dict.val[x][2][1] # block_dict.val[x][2][2]

(* The n-grams of a party's records under the padding setting: the         *)
(* length-QGRAM_LEN substrings of each joined attribute string, padded     *)
(* when QGRAM_PADDING is set.                                              *)
ExtractedNGrams(p) ==
    UNION { Range(Str2bfQGrams(JoinedValue(rec_dict[p].val[x][2], a),
                               QGRAM_PADDING)) :
                x \in 1..Len(rec_dict[p].val), a \in PsAttrLists }

(* C10: the keys of a party's n-gram dictionary are exactly the n-grams of *)
(* the padded strings when padding is enabled, of the plain strings        *)
(* otherwise.                                                              *)
C10_KeysFollowPadding ==
    \A p \in Party :
        calls[p] >= 1 => DictKeys(ngram_dict[p]) = ExtractedNGrams(p)

(* The set {(A + i * B) mod L : 0 <= i < H} for the digests A, B of gram.   *)
DoubleHashBits(gram) ==
    { (Digest1(gram) + i * Digest2(gram)) % bf_len : i \in 0..(num_hash_funct - 1) }

(* C12: with bf_len > 0 the filter of an n-gram is exactly                 *)
(* {(A + i * B) mod bf_len : 0 <= i < num_hash_funct}: every bit lies in   *)
(* [0, bf_len), an n-gram sets at most num_hash_funct bits, and a party's  *)
(* filter is the union over its n-grams however often it was computed.     *)
C12_FilterIsTheDoubleHashSet ==
    bf_len > 0 =>
        \A p \in Party :
            party_bf[p].st = "set" =>
                /\ party_bf[p].val =
                       UNION { DoubleHashBits(g) : g \in DictKeys(ngram_dict[p]) }
                /\ party_bf[p].val \subseteq 0..(bf_len - 1)
                /\ \A g \in DictKeys(ngram_dict[p]) :
                       /\ Cardinality(NGramFilter(g)) <= num_hash_funct
                       /\ NGramFilter(g) = DoubleHashBits(g)

(* A filter computed twice with two hash functions that holds an n-gram    *)
(* with two different bits.                                                *)
C12_TwoBitsComputedTwice ==
    /\ bf_len > 0
    /\ num_hash_funct = 2
    /\ calls["alice"] = 2
    /\ party_bf["alice"].st = "set"
    /\ \E g \in DictKeys(ngram_dict["alice"]) : Cardinality(NGramFilter(g)) = 2

(* C13 as stated, for bf_len > 0 and num_hash_funct > 0: the filter of     *)
(* every n-gram kept in a built index is a proper subset of the common     *)
(* filter.                                                                 *)
C13_KeptFilterIsProperSubset ==
    \A p \in Party :
        (BuiltIndexOf(p) /\ bf_len > 0 /\ num_hash_funct > 0) =>
            \A g \in DictKeys(index[p].val) :
                /\ NGramFilter(g) \subseteq common_bf.val
                /\ NGramFilter(g) # common_bf.val

(* C13 amended: the filter of every n-gram kept in a built index is a      *)
(* subset of the common filter, possibly the whole of it.                  *)
C13_KeptFilterIsSubset ==
    \A p \in Party :
        BuiltIndexOf(p) =>
            \A g \in DictKeys(index[p].val) :
                NGramFilter(g) \subseteq common_bf.val

(* A built index that keeps an n-gram whose non-empty filter is the whole  *)
(* common filter, next to an n-gram it has dropped.                        *)
C13_KeptFilterEqualsCommon ==
    \E p \in Party :
        /\ BuiltIndexOf(p)
        /\ common_bf.val # {}
        /\ \E g \in DictKeys(index[p].val) : NGramFilter(g) = common_bf.val
        /\ DictKeys(ngram_dict[p]) \ DictKeys(index[p].val) # {}

(* The n-gram dictionary a single get_ngram run over party p's records     *)
(* fills, starting from an empty dictionary.                               *)
SingleBuildNGrams(p) ==
    get_ngram(rec_dict[p].val, <<>>, <<0, 1>>, {}).ngram_dict

(* C18: under a valid configuration, whatever sequence of bloom-filter     *)
(* calls has run, the n-gram dictionary of a party whose filter was        *)
(* computed is the dictionary of a single build: every n-gram maps to the  *)
(* ids of the records that hold it, once per occurrence.                   *)
C18_NGramIndexIsOneBuild ==
    ( /\ bf_len > 0
      /\ num_hash_funct > 0 ) =>
        \A p \in Party :
            calls[p] >= 1 => ngram_dict[p] = SingleBuildNGrams(p)

=============================================================================
